---- MODULE Spec2Model ----
(***************************************************************************)
(* agent-backport: the in-memory job store (src/lib/jobs.ts 1-104), the    *)
(* Redis job store (106-290), the backport workflow (292-593) that drives  *)
(* one job, and the job query endpoint (src/app/api/jobs/route.ts 5-30).   *)
(*                                                                         *)
(* The workflow runtime behind the "use workflow" / "use step" directives  *)
(* is the external `workflow` package; its step executor and its replay    *)
(* are modelled from sections 4.2 and 4.3 of the specification.            *)
(*                                                                         *)
(* Spec is one run of the workflow on the Redis store; RedisSpec and       *)
(* InMemorySpec are a client calling the functions of either store, and    *)
(* UntypedSpec adds callers handing updateJob fields its type omits.       *)
(***************************************************************************)
EXTENDS Integers, Sequences, FiniteSets, TLC

(* ------------------------------ bounds -------------------------------- *)

\* how many times one run may be interrupted and re-driven from the start
MaxReplays == 1

\* the engine's attempt ceiling for one step (section 4.3)
AttemptCeiling == 3

\* how many calls a client of the job store makes
MaxCalls == 3

\* how many calls other processes make on the store while a run is driven
MaxConcurrent == 1

\* the times the wall clock may be set to
MaxTime == 2

(* ------------------------- values of the model ------------------------ *)

JOB_PREFIX == "job:"

JOB_LOGS_SUFFIX == ":logs"

JOB_INDEX == "jobs:all"

\* the parameters the trigger hands to createJob and to the workflow
BackportParams ==
    [jobId |-> "bp_1", installationId |-> 1, repository |-> "o/r",
     prNumber |-> 42, targetBranch |-> "release-1.2", commentId |-> 9]

\* what a call of the source-control collaborator answers
Responses == {"ok", "transient", "permanent"}

\* the message of the error octokit raises for a failed call
HttpErrorMessage(r) == IF r = "transient" THEN <<"HTTP 502">> ELSE <<"HTTP 404">>

\* the numbers the collaborator may give a created pull request
PRNumbers == {7, 8}

\* a thrown Error / FatalError
Thrown(fatal, message) == [isError |-> TRUE, fatal |-> fatal, message |-> message]

RedisError == Thrown(FALSE, <<"redis request failed">>)

\* how a store call ends: normally, raising before its first write took
\* effect, or raising after its first write and before it finished
StoreOutcomes == {"ok", "failBefore", "failAfter"}

\* Contains(body, part): the text part occurs in the text body
Contains(body, part) ==
    \E i \in 1..(Len(body) - Len(part) + 1) :
        SubSeq(body, i, i + Len(part) - 1) = part

(* ------------------------------- state -------------------------------- *)

VARIABLES
    redisHash,      \* Redis hashes: key -> (field -> value); no fields = no key
    redisList,      \* Redis lists: key -> sequence of log entries
    redisZset,      \* the sorted set jobs:all, a set of [score, member]
    now,            \* the clock read by new Date()
    pc,             \* position of the workflow function backportPullRequest
    frame,          \* its local constants: prDetails, analysis, ...
    recorded,       \* durable step results of the run, by step name
    attempts,       \* invocations of each step's function body
    replays,        \* times the run was interrupted and re-driven
    github,         \* the collaborator: reactions, pulls and comments made
    answers,        \* the collaborator's latest answer to each step
    terminalWrites, \* status values written by updateJob calls, in order
    storeFaults,    \* number of store calls of the run that raised
    jobs,           \* the in-memory store: the Map, in insertion order
    created,        \* the ids createJob was called for
    calls,          \* number of calls the store's client has made
    ret             \* the latest call of the client and what it returned

vars == <<redisHash, redisList, redisZset, now, pc, frame, recorded,
          attempts, replays, github, answers, terminalWrites, storeFaults,
          jobs, created, calls, ret>>

\* the state of the store's client
clientVars == <<jobs, created, calls, ret>>

\* the state of the workflow run
runVars == <<pc, frame, recorded, attempts, replays, github, answers,
             terminalWrites, storeFaults>>

storeVars == <<redisHash, redisList, redisZset, now>>

StepNames == {"acknowledgeRequest", "fetchPRDetails", "validateTargetBranch",
              "analyzeChanges", "performBackport", "createBackportPR",
              "reportSuccess", "reportFailure"}

JobIds == {BackportParams.jobId, "bp_2"}

\* one key for the records of all jobs
HashKeyShared(id) == JOB_PREFIX

HashKey(id) == JOB_PREFIX \o id

LogsKey(id) == JOB_PREFIX \o id \o JOB_LOGS_SUFFIX

NoFields == [f \in {} |-> 0]

\* Object.keys(data).length === 0, or no data at all
IsEmptyHash(h) == DOMAIN h = {}

(* -------------------- the Redis job store (106-290) -------------------- *)

\* Date.prototype.toISOString and new Date(string): a date is its epoch
\* milliseconds, its ISO form a tagged text
toISOString(t) == <<"ISO", ToString(t)>>

\* new Date(isoString) parses the text back to epoch milliseconds
DateFromISO(s) ==
    CHOOSE t \in 0..(now + MaxTime + MaxCalls) : ToString(t) = s[2]

\* redis.hset(key, fields): sets the given fields, keeps the others
hset(H, key, fields) == [H EXCEPT ![key] = fields @@ @]

\* redis.rpush(key, entry)
rpush(L, key, entry) == [L EXCEPT ![key] = Append(@, entry)]

\* redis.zadd(JOB_INDEX, {score, member}): one score per member
zadd(Z, score, member) ==
    {e \in Z : e.member # member} \cup {[score |-> score, member |-> member]}

jobToRedis(job) ==
    LET base == [id |-> job.id, repository |-> job.repository,
                 installationId |-> job.installationId,
                 sourcePR |-> job.sourcePR,
                 targetBranch |-> job.targetBranch, status |-> job.status,
                 createdAt |-> toISOString(job.createdAt),
                 updatedAt |-> toISOString(job.updatedAt),
                 requestedBy |-> job.requestedBy,
                 commentId |-> job.commentId]
        res == IF "resultPR" \in DOMAIN job
               THEN [resultPR |-> job.resultPR] ELSE NoFields
        err == IF "error" \in DOMAIN job
               THEN [error |-> job.error] ELSE NoFields
    IN  err @@ res @@ base

jobFromRedis(data, logs) ==
    [logs |-> logs] @@
    (IF "updatedAt" \in DOMAIN data
     THEN [updatedAt |-> DateFromISO(data.updatedAt)] ELSE NoFields) @@
    (IF "createdAt" \in DOMAIN data
     THEN [createdAt |-> DateFromISO(data.createdAt)] ELSE NoFields) @@
    data

\* generateJobId: an id no job has yet (the time and seven random digits)
generateJobId == JobIds \ created

\* the job createJob(params) builds under the id it generated
NewJob(id, params) ==
    [id |-> id, status |-> "pending", createdAt |-> now, updatedAt |-> now,
     logs |-> <<>>] @@ params

\* whether a call that ends as d wrote its first write
Wrote(d) == d \in {"ok", "failAfter"}

\* createJob(params) under the generated id, ending as d: the hset of the
\* record, then the zadd of the index entry
createJob(id, params, d) ==
    LET job == NewJob(id, params)
    IN  /\ IF Wrote(d)
           THEN redisHash' = hset(redisHash, HashKey(job.id),
                    jobToRedis([f \in DOMAIN job \ {"logs"} |-> job[f]]))
           ELSE UNCHANGED redisHash
        /\ IF d = "ok"
           THEN redisZset' = zadd(redisZset, now, job.id)
           ELSE UNCHANGED redisZset
        /\ now' = now + 1
        /\ UNCHANGED redisList

\* getJob(id): the record joined with its log list, or null
getJob(id) ==
    LET data == redisHash[HashKey(id)]
    IN  IF IsEmptyHash(data) THEN [absent |-> TRUE]
        ELSE jobFromRedis(data, redisList[LogsKey(id)])

\* updatedData of updateJob: {...existing, ...updates, updatedAt}
UpdatedData(existing, updates) ==
    [updatedAt |-> toISOString(now)] @@ updates @@ existing

\* updateJob(id, updates) ending as d: hgetall, hset of the merged record,
\* lrange of the logs
updateJob(id, updates, d) ==
    LET existing == redisHash[HashKey(id)]
    IN  /\ IF Wrote(d) /\ ~IsEmptyHash(existing)
           THEN redisHash' = hset(redisHash, HashKey(id),
                                  UpdatedData(existing, updates))
           ELSE UNCHANGED redisHash
        /\ now' = now + 1
        /\ UNCHANGED <<redisList, redisZset>>

\* the log entry `[${iso}] ${message}`
LogEntry(message) == [at |-> toISOString(now), message |-> message]

\* addJobLog(id, message) ending as d: rpush of the entry, then hset of
\* updatedAt alone
addJobLog(id, message, d) ==
    /\ IF Wrote(d)
       THEN redisList' = rpush(redisList, LogsKey(id), LogEntry(message))
       ELSE UNCHANGED redisList
    /\ IF d = "ok"
       THEN redisHash' = hset(redisHash, HashKey(id),
                              [updatedAt |-> toISOString(now)])
       ELSE UNCHANGED redisHash
    /\ now' = now + 1
    /\ UNCHANGED redisZset

(* ------------------ listing in the Redis store (249-290) --------------- *)

\* a JavaScript number is a value or NaN
Num(n) == [value |-> n]

NaN == [nan |-> TRUE]

\* whether a number is truthy: neither 0 nor NaN
Truthy(x) == "value" \in DOMAIN x /\ x.value # 0

\* whether options?.[name] is a non-empty text
HasText(options, name) == name \in DOMAIN options /\ options[name] # ""

\* Array.prototype.slice(0, n): the first n elements, or all but the last
\* -n of them
slice(s, n) ==
    IF n >= 0
    THEN SubSeq(s, 1, IF n < Len(s) THEN n ELSE Len(s))
    ELSE SubSeq(s, 1, IF Len(s) + n > 0 THEN Len(s) + n ELSE 0)

\* the limit listJobs applies when it is given none
DefaultLimit == 50

\* the lexicographic order of the job ids
IdRank(id) == IF id = BackportParams.jobId THEN 1 ELSE 2

\* e precedes f in ZRANGE ... REV: higher score first, and among equal
\* scores the lexicographically greater member first
Precedes(e, f) ==
    \/ e.score > f.score
    \/ e.score = f.score /\ IdRank(e.member) > IdRank(f.member)

\* redis.zrange(JOB_INDEX, 0, -1, {rev: true})
RECURSIVE zrangeRev(_)
zrangeRev(Z) ==
    IF Z = {} THEN <<>>
    ELSE LET first == CHOOSE e \in Z : \A f \in Z \ {e} : Precedes(e, f)
         IN  <<first.member>> \o zrangeRev(Z \ {first})

\* listJobs(options): the index newest first, each id's job, the filters,
\* then the limit
listJobs(options) ==
    LET limit == IF "limit" \in DOMAIN options /\ Truthy(options.limit)
                 THEN options.limit.value ELSE DefaultLimit
        jobIds == zrangeRev(redisZset)
        fetched == [i \in 1..Len(jobIds) |-> getJob(jobIds[i])]
        found == SelectSeq(fetched, LAMBDA j : "absent" \notin DOMAIN j)
        ofRepository ==
            IF HasText(options, "repository")
            THEN SelectSeq(found, LAMBDA j : j.repository = options.repository)
            ELSE found
        ofStatus ==
            IF HasText(options, "status")
            THEN SelectSeq(ofRepository, LAMBDA j : j.status = options.status)
            ELSE ofRepository
    IN  slice(ofStatus, limit)

\* listJobsForUser(accessToken, limit): every job, whoever asks
listJobsForUser(accessToken, limit) == listJobs([limit |-> limit])

(* -------------------- the in-memory job store (1-104) ------------------ *)

\* jobs.has(id)
HasInMemory(id) == \E i \in 1..Len(jobs) : jobs[i].key = id

\* jobs.get(id) || null
getJobInMemory(id) ==
    IF HasInMemory(id)
    THEN jobs[CHOOSE i \in 1..Len(jobs) : jobs[i].key = id].job
    ELSE [absent |-> TRUE]

\* jobs.set(id, job): a new key goes last, a known key keeps its place
SetInMemory(id, job) ==
    IF HasInMemory(id)
    THEN [jobs EXCEPT ![CHOOSE i \in 1..Len(jobs) : jobs[i].key = id] =
              [key |-> id, job |-> job]]
    ELSE Append(jobs, [key |-> id, job |-> job])

\* createJob(params) under the generated id; updatedAt is a second reading
\* of the clock
createJobInMemory(id, params, later) ==
    [NewJob(id, params) EXCEPT !.updatedAt = later]

\* updated of updateJob: {...job, ...updates, updatedAt}
updateJobInMemory(job, updates) == [updatedAt |-> now] @@ updates @@ job

\* addJobLog(id, message) on a stored job: the push, then updatedAt from a
\* second reading of the clock
addJobLogInMemory(job, message, later) ==
    [job EXCEPT !.logs = Append(@, LogEntry(message)), !.updatedAt = later]

\* result.sort((a, b) => b.createdAt - a.createdAt): stable, newest first
RECURSIVE sortByCreatedAt(_)
sortByCreatedAt(s) ==
    IF s = <<>> THEN <<>>
    ELSE LET sorted == sortByCreatedAt(SubSeq(s, 1, Len(s) - 1))
             last == s[Len(s)]
             k == Cardinality({i \in 1..Len(sorted) :
                                  sorted[i].createdAt >= last.createdAt})
         IN  SubSeq(sorted, 1, k) \o <<last>> \o SubSeq(sorted, k + 1, Len(sorted))

\* listJobs(options): the Map's values, the filters, the sort, the limit
listJobsInMemory(options) ==
    LET values == [i \in 1..Len(jobs) |-> jobs[i].job]
        ofRepository ==
            IF HasText(options, "repository")
            THEN SelectSeq(values, LAMBDA j : j.repository = options.repository)
            ELSE values
        ofStatus ==
            IF HasText(options, "status")
            THEN SelectSeq(ofRepository, LAMBDA j : j.status = options.status)
            ELSE ofRepository
        sorted == sortByCreatedAt(ofStatus)
    IN  IF "limit" \in DOMAIN options /\ Truthy(options.limit)
        THEN slice(sorted, options.limit.value)
        ELSE sorted

(* ------------- the job query endpoint (route.ts 5-30) ------------------ *)

\* no session at all
Null == [null |-> TRUE]

\* what auth() resolves to: no session, a session without a token, a session
\* with one
Sessions ==
    {Null, [user |-> "alice"], [user |-> "alice", accessToken |-> "gho_1"]}

\* the limits a caller writes into the query string
LimitTexts == {"0", "1", "x"}

\* the query strings: an id (possibly empty), a limit, or neither
SearchParams ==
    {NoFields} \cup {[id |-> i] : i \in JobIds \cup {""}}
               \cup {[limit |-> l] : l \in LimitTexts}

\* a check of the session alone
HasAccessTokenOrSession(session) == session # Null

\* session?.accessToken
HasAccessToken(session) ==
    "accessToken" \in DOMAIN session /\ session.accessToken # ""

\* parseInt(text, 10) of a decimal numeral or of a text that starts with no
\* digit
parseInt(text) ==
    IF \E n \in 0..DefaultLimit : ToString(n) = text
    THEN Num(CHOOSE n \in 0..DefaultLimit : ToString(n) = text)
    ELSE NaN

\* GET(request): the response, and the store functions it called
GET(session, searchParams) ==
    IF ~HasAccessToken(session)
    THEN [status |-> 401, body |-> [error |-> "Unauthorized"], called |-> {}]
    ELSE IF HasText(searchParams, "id")
    THEN LET job == getJob(searchParams.id)
         IN  IF "absent" \in DOMAIN job
             THEN [status |-> 404, body |-> [error |-> "Job not found"],
                   called |-> {"getJob"}]
             ELSE [status |-> 200, body |-> job, called |-> {"getJob"}]
    ELSE LET limit == parseInt(IF HasText(searchParams, "limit")
                               THEN searchParams.limit ELSE "50")
         IN  [status |-> 200,
              body |-> [jobs |-> listJobsForUser(session.accessToken, limit)],
              called |-> {"listJobsForUser"}]

(* ---------------- the workflow's texts and step values ---------------- *)

\* what fetchPRDetails may return: title, number of commits, and the
\* number of "diff --git" lines of the diff
PRDetailsSet ==
    {[title |-> "Fix", commits |-> 1, diffFiles |-> 2],
     [title |-> "Fix", commits |-> 2, diffFiles |-> 11]}

\* the body of analyzeChanges
Analysis(prDetails) ==
    LET filesChanged == prDetails.diffFiles
    IN  [complexity |-> IF filesChanged > 10 THEN "high"
                        ELSE IF filesChanged > 3 THEN "medium" ELSE "low",
         filesChanged |-> filesChanged]

\* the value the shipped body of performBackport returns
PlaceholderResult ==
    [success |-> FALSE,
     error |-> <<"Backport execution not yet implemented (coming in Phase 6)">>]

\* the values of performBackport's declared result type the orchestrator
\* is written for: the placeholder, a conflict, and a produced branch
BackportResults ==
    {PlaceholderResult,
     [success |-> FALSE, error |-> <<"merge conflict in x.go">>],
     [success |-> TRUE, branch |-> "backport-42-to-release-1.2"]}

\* the message of validateTargetBranch's FatalError
BranchMissingMessage(targetBranch) ==
    <<"Target branch '", targetBranch, "' does not exist">>

\* the comment naming the source PR instead of the created one
SuccessBodyNamingSourcePR(targetBranch, resultPR) ==
    <<"Successfully backported to ", targetBranch, "! See #",
      ToString(BackportParams.prNumber)>>

\* the comment body of reportSuccess
SuccessBody(targetBranch, resultPR) ==
    <<"Successfully backported to ", targetBranch, "! See #",
      ToString(resultPR)>>

\* the comment body of reportFailure
FailureBody(targetBranch, error) ==
    <<"Failed to backport to ", targetBranch, ". Error: ">> \o error
        \o <<" Please try backporting manually.">>

\* errorMessage of the catch handler
errorMessage(error) ==
    IF error.isError THEN error.message ELSE <<"Unknown error">>

\* the addJobLog calls of the workflow body, by line, and their messages
LogSites == {"L332", "L335", "L337", "L338", "L341", "L343", "L346",
             "L348", "L351", "L362", "L383", "L387"}

LogMessage(site) ==
    CASE site = "L332" -> <<"Request acknowledged">>
      [] site = "L335" -> <<"Fetching PR details...">>
      [] site = "L337" -> <<"PR title: ", frame.prDetails.title>>
      [] site = "L338" -> <<"Commits: ", ToString(frame.prDetails.commits)>>
      [] site = "L341" -> <<"Validating target branch: ",
                            BackportParams.targetBranch>>
      [] site = "L343" -> <<"Target branch exists">>
      [] site = "L346" -> <<"Analyzing changes...">>
      [] site = "L348" -> <<"Analysis complete. Complexity: ",
                            frame.analysis.complexity>>
      [] site = "L351" -> <<"Performing backport in sandbox...">>
      [] site = "L362" -> <<"Backport successful, creating PR...">>
      [] site = "L383" -> <<"Backport PR created: #",
                            ToString(frame.resultPR)>>
      [] site = "L387" -> <<"Backport failed: ">> \o frame.backportResult.error

\* the statement that follows an addJobLog call of the try block
AfterLog(site) ==
    CASE site = "L332" -> "L335"
      [] site = "L335" -> "L336"
      [] site = "L337" -> "L338"
      [] site = "L338" -> "L341"
      [] site = "L341" -> "L342"
      [] site = "L343" -> "L346"
      [] site = "L346" -> "L347"
      [] site = "L348" -> "L351"
      [] site = "L351" -> "L352"
      [] site = "L362" -> "L363"
      [] site = "L383" -> "returned"
      [] site = "L387" -> "L388"

\* the call sites of the steps in the workflow body
StepSites == {"L331", "L336", "L342", "L347", "L352", "L363", "L371", "L388"}

(* ------------- the step executor and the engine (4.2, 4.3) ------------- *)

NoResult == [kind |-> "none"]

\* the directive missing from acknowledgeRequest
UseStepWithoutAcknowledge ==
    {"fetchPRDetails", "validateTargetBranch", "analyzeChanges",
     "performBackport", "createBackportPR", "reportSuccess", "reportFailure"}

\* the functions of the workflow file that carry the "use step" directive
UseStep == {"acknowledgeRequest", "fetchPRDetails", "validateTargetBranch",
            "analyzeChanges", "performBackport", "createBackportPR",
            "reportSuccess", "reportFailure"}

\* a call of a step function whose result the engine holds; a function
\* without the directive is plain workflow code and runs on every pass
Recorded(s) == s \in UseStep /\ recorded[s].kind = "value"

\* the step's function returned v: the engine records it
StepCompletes(s, v) ==
    /\ recorded' = [recorded EXCEPT ![s] = [kind |-> "value", value |-> v]]
    /\ attempts' = [attempts EXCEPT ![s] = @ + 1]

\* entering the catch handler of backportPullRequest with the error e
Catch(e) ==
    /\ pc' = "L405"
    /\ frame' = ("error" :> e) @@ frame

\* the step's function raised e: a FatalError, or the last allowed attempt,
\* aborts the run into the workflow's catch; otherwise the step is retried
StepRaises(s, e) ==
    /\ attempts' = [attempts EXCEPT ![s] = @ + 1]
    /\ UNCHANGED recorded
    /\ IF e.fatal \/ attempts[s] + 1 >= AttemptCeiling
       THEN Catch(e)
       ELSE UNCHANGED <<pc, frame>>

\* the collaborator answers r to the call the step s makes
Answered(s, r) == answers' = [answers EXCEPT ![s] = r]

\* a dispatch of a step whose result is recorded returns the recorded value
\* without invoking the function
ReturnsRecorded(s) ==
    /\ Recorded(s)
    /\ UNCHANGED <<recorded, attempts, github, answers>>

\* the run is interrupted at a step boundary and re-driven from the start
Interrupt ==
    /\ pc \in StepSites \ {"L331"}
    /\ replays < MaxReplays
    /\ replays' = replays + 1
    /\ pc' = "L331"
    /\ frame' = NoFields
    /\ UNCHANGED <<storeVars, recorded, attempts, github, answers,
                   terminalWrites, storeFaults>>
    /\ UNCHANGED clientVars

(* --------------------------- the trigger ------------------------------ *)

\* the trigger creates the job record and starts the workflow on it
Trigger ==
    /\ pc = "idle"
    /\ BackportParams.jobId \in generateJobId
    /\ created' = created \cup {BackportParams.jobId}
    /\ UNCHANGED <<jobs, calls, ret>>
    /\ createJob(BackportParams.jobId,
                 [repository |-> BackportParams.repository,
                  installationId |-> BackportParams.installationId,
                  sourcePR |-> BackportParams.prNumber,
                  targetBranch |-> BackportParams.targetBranch,
                  requestedBy |-> "alice",
                  commentId |-> BackportParams.commentId], "ok")
    /\ pc' = "L331"
    /\ UNCHANGED <<frame, recorded, attempts, replays, github, answers,
                   terminalWrites, storeFaults>>

(* ----------------- backportPullRequest, the try block ------------------ *)

\* what a step's action leaves alone
StepFrame ==
    UNCHANGED <<storeVars, replays, terminalWrites, storeFaults, clientVars>>

\* the error of a failed collaborator call, as octokit raises it
HttpError(r) == Thrown(FALSE, HttpErrorMessage(r))

\* line 331
acknowledgeRequest ==
    /\ pc = "L331"
    /\ StepFrame
    /\ \/ /\ ReturnsRecorded("acknowledgeRequest")
          /\ pc' = "L332"
          /\ UNCHANGED frame
       \/ /\ ~Recorded("acknowledgeRequest")
          /\ \E r \in Responses :
               /\ Answered("acknowledgeRequest", r)
               /\ IF r = "ok"
                  THEN /\ github' = [github EXCEPT !.reactions = @ + 1]
                       /\ StepCompletes("acknowledgeRequest", "void")
                       /\ pc' = "L332"
                       /\ UNCHANGED frame
                  ELSE /\ StepRaises("acknowledgeRequest", HttpError(r))
                       /\ UNCHANGED github

\* the addJobLog calls of the try block (lines 332-387)
bodyAddJobLog ==
    /\ pc \in LogSites
    /\ \E d \in StoreOutcomes :
         /\ addJobLog(BackportParams.jobId, LogMessage(pc), d)
         /\ IF d = "ok"
            THEN pc' = AfterLog(pc) /\ UNCHANGED <<frame, storeFaults>>
            ELSE Catch(RedisError) /\ storeFaults' = storeFaults + 1
    /\ UNCHANGED <<recorded, attempts, replays, github, answers,
                   terminalWrites>>
    /\ UNCHANGED clientVars

\* line 336; the three reads of the step (PR, commits, diff) answer as one
fetchPRDetails ==
    /\ pc = "L336"
    /\ StepFrame
    /\ UNCHANGED github
    /\ \/ /\ ReturnsRecorded("fetchPRDetails")
          /\ pc' = "L337"
          /\ frame' = ("prDetails" :> recorded["fetchPRDetails"].value) @@ frame
       \/ /\ ~Recorded("fetchPRDetails")
          /\ \E r \in Responses :
               /\ Answered("fetchPRDetails", r)
               /\ IF r = "ok"
                  THEN \E details \in PRDetailsSet :
                         /\ StepCompletes("fetchPRDetails", details)
                         /\ pc' = "L337"
                         /\ frame' = ("prDetails" :> details) @@ frame
                  ELSE StepRaises("fetchPRDetails", HttpError(r))

\* line 342; the step's own catch turns every getBranch error into a
\* FatalError
validateTargetBranch ==
    /\ pc = "L342"
    /\ StepFrame
    /\ UNCHANGED github
    /\ \/ /\ ReturnsRecorded("validateTargetBranch")
          /\ pc' = "L343"
          /\ UNCHANGED frame
       \/ /\ ~Recorded("validateTargetBranch")
          /\ \E r \in Responses :
               /\ Answered("validateTargetBranch", r)
               /\ IF r = "ok"
                  THEN /\ StepCompletes("validateTargetBranch", "void")
                       /\ pc' = "L343"
                       /\ UNCHANGED frame
                  ELSE StepRaises("validateTargetBranch",
                                  Thrown(TRUE, BranchMissingMessage(
                                                   BackportParams.targetBranch)))

\* line 347
analyzeChanges ==
    /\ pc = "L347"
    /\ StepFrame
    /\ UNCHANGED github
    /\ pc' = "L348"
    /\ \/ /\ ReturnsRecorded("analyzeChanges")
          /\ frame' = ("analysis" :> recorded["analyzeChanges"].value) @@ frame
       \/ /\ ~Recorded("analyzeChanges")
          /\ UNCHANGED answers
          /\ StepCompletes("analyzeChanges", Analysis(frame.prDetails))
          /\ frame' = ("analysis" :> Analysis(frame.prDetails)) @@ frame

\* line 352 and the branch of line 361; the result ranges over the
\* declared result type, of which the shipped body returns
\* PlaceholderResult only
performBackport ==
    /\ pc = "L352"
    /\ StepFrame
    /\ UNCHANGED github
    /\ \/ /\ ReturnsRecorded("performBackport")
          /\ frame' = ("backportResult" :> recorded["performBackport"].value)
                          @@ frame
       \/ /\ ~Recorded("performBackport")
          /\ UNCHANGED answers
          /\ \E result \in BackportResults :
               /\ StepCompletes("performBackport", result)
               /\ frame' = ("backportResult" :> result) @@ frame
    /\ pc' = IF frame'.backportResult.success THEN "L362" ELSE "L387"

\* line 363
createBackportPR ==
    /\ pc = "L363"
    /\ StepFrame
    /\ \/ /\ ReturnsRecorded("createBackportPR")
          /\ pc' = "L371"
          /\ frame' = ("resultPR" :> recorded["createBackportPR"].value)
                          @@ frame
       \/ /\ ~Recorded("createBackportPR")
          /\ \E r \in Responses :
               /\ Answered("createBackportPR", r)
               /\ IF r = "ok"
                  THEN \E number \in PRNumbers :
                         /\ github' = [github EXCEPT !.pulls = Append(@,
                                [number |-> number,
                                 head |-> frame.backportResult.branch,
                                 base |-> BackportParams.targetBranch])]
                         /\ StepCompletes("createBackportPR", number)
                         /\ pc' = "L371"
                         /\ frame' = ("resultPR" :> number) @@ frame
                  ELSE /\ StepRaises("createBackportPR", HttpError(r))
                       /\ UNCHANGED github

\* line 371
reportSuccess ==
    /\ pc = "L371"
    /\ StepFrame
    /\ \/ /\ ReturnsRecorded("reportSuccess")
          /\ pc' = "L379"
          /\ UNCHANGED frame
       \/ /\ ~Recorded("reportSuccess")
          /\ \E r \in Responses :
               /\ Answered("reportSuccess", r)
               /\ IF r = "ok"
                  THEN /\ github' = [github EXCEPT !.comments = Append(@,
                                SuccessBody(BackportParams.targetBranch,
                                            frame.resultPR))]
                       /\ StepCompletes("reportSuccess", "void")
                       /\ pc' = "L379"
                       /\ UNCHANGED frame
                  ELSE /\ StepRaises("reportSuccess", HttpError(r))
                       /\ UNCHANGED github

\* what an updateJob call of the workflow adds to the record of status writes
StatusWritten(updates, d) ==
    IF Wrote(d) THEN Append(terminalWrites, updates.status)
    ELSE terminalWrites

\* line 379
updateJobCompleted ==
    /\ pc = "L379"
    /\ \E d \in StoreOutcomes :
         LET updates == [status |-> "completed", resultPR |-> frame.resultPR]
         IN  /\ updateJob(BackportParams.jobId, updates, d)
             /\ terminalWrites' = StatusWritten(updates, d)
             /\ IF d = "ok"
                THEN pc' = "L383" /\ UNCHANGED <<frame, storeFaults>>
                ELSE Catch(RedisError) /\ storeFaults' = storeFaults + 1
    /\ UNCHANGED <<recorded, attempts, replays, github, answers>>
    /\ UNCHANGED clientVars

\* line 388
reportFailure ==
    /\ pc = "L388"
    /\ StepFrame
    /\ \/ /\ ReturnsRecorded("reportFailure")
          /\ pc' = "L396"
          /\ UNCHANGED frame
       \/ /\ ~Recorded("reportFailure")
          /\ \E r \in Responses :
               /\ Answered("reportFailure", r)
               /\ IF r = "ok"
                  THEN /\ github' = [github EXCEPT !.comments = Append(@,
                                FailureBody(BackportParams.targetBranch,
                                            frame.backportResult.error))]
                       /\ StepCompletes("reportFailure", "void")
                       /\ pc' = "L396"
                       /\ UNCHANGED frame
                  ELSE /\ StepRaises("reportFailure", HttpError(r))
                       /\ UNCHANGED github

\* line 396, and the return of line 401
updateJobFailed ==
    /\ pc = "L396"
    /\ \E d \in StoreOutcomes :
         LET updates == [status |-> "failed",
                         error |-> frame.backportResult.error]
         IN  /\ updateJob(BackportParams.jobId, updates, d)
             /\ terminalWrites' = StatusWritten(updates, d)
             /\ IF d = "ok"
                THEN pc' = "returned" /\ UNCHANGED <<frame, storeFaults>>
                ELSE Catch(RedisError) /\ storeFaults' = storeFaults + 1
    /\ UNCHANGED <<recorded, attempts, replays, github, answers>>
    /\ UNCHANGED clientVars

(* ---------------- backportPullRequest, the catch handler --------------- *)

\* line 405: an error raised here leaves the function before line 406
catchAddJobLog ==
    /\ pc = "L405"
    /\ \E d \in StoreOutcomes :
         /\ addJobLog(BackportParams.jobId,
                      <<"Workflow error: ">> \o errorMessage(frame.error), d)
         /\ IF d = "ok"
            THEN pc' = "L406" /\ UNCHANGED storeFaults
            ELSE pc' = "thrown" /\ storeFaults' = storeFaults + 1
    /\ UNCHANGED <<frame, recorded, attempts, replays, github, answers,
                   terminalWrites>>
    /\ UNCHANGED clientVars

\* line 406, and the re-throw of line 412
catchUpdateJob ==
    /\ pc = "L406"
    /\ \E d \in StoreOutcomes :
         LET updates == [status |-> "failed",
                         error |-> errorMessage(frame.error)]
         IN  /\ updateJob(BackportParams.jobId, updates, d)
             /\ terminalWrites' = StatusWritten(updates, d)
             /\ storeFaults' = IF d = "ok" THEN storeFaults
                               ELSE storeFaults + 1
    /\ pc' = "thrown"
    /\ UNCHANGED <<frame, recorded, attempts, replays, github, answers>>
    /\ UNCHANGED clientVars

(* --------------------------- specification ---------------------------- *)

Init ==
    /\ redisHash = [k \in {HashKey(id) : id \in JobIds} |-> NoFields]
    /\ redisList = [k \in {LogsKey(id) : id \in JobIds} |-> <<>>]
    /\ redisZset = {}
    /\ now = 1
    /\ pc = "idle"
    /\ frame = NoFields
    /\ recorded = [s \in StepNames |-> NoResult]
    /\ attempts = [s \in StepNames |-> 0]
    /\ replays = 0
    /\ github = [reactions |-> 0, pulls |-> <<>>, comments |-> <<>>]
    /\ answers = [s \in StepNames |-> "none"]
    /\ terminalWrites = <<>>
    /\ storeFaults = 0
    /\ jobs = <<>>
    /\ created = {}
    /\ calls = 0
    /\ ret = [op |-> "none"]

Next ==
    \/ Trigger
    \/ acknowledgeRequest
    \/ bodyAddJobLog
    \/ fetchPRDetails
    \/ validateTargetBranch
    \/ analyzeChanges
    \/ performBackport
    \/ createBackportPR
    \/ reportSuccess
    \/ updateJobCompleted
    \/ reportFailure
    \/ updateJobFailed
    \/ catchAddJobLog
    \/ catchUpdateJob
    \/ Interrupt

Spec == Init /\ [][Next]_vars

(* ----------------------- the store and its client ---------------------- *)

\* the repositories jobs are created for
Repositories == {"o/r", "o/s"}

\* the params a client hands to createJob
JobParams ==
    {[repository |-> r, installationId |-> 1, sourcePR |-> 42,
      targetBranch |-> "release-1.2", requestedBy |-> "alice",
      commentId |-> 9] : r \in Repositories}

\* the updates the type of updateJob's parameter admits in both stores
TypedUpdates ==
    {[status |-> "in_progress"],
     [status |-> "failed", error |-> <<"HTTP 404">>]}

\* updates that also carry a field the type omits
UntypedUpdates ==
    {[status |-> "in_progress", id |-> "bp_9"],
     [status |-> "in_progress", createdAt |-> toISOString(0)]}

\* the messages a client logs
Messages == {<<"a">>, <<"b">>}

\* the options a client hands to listJobs
ListOptions ==
    {NoFields, [limit |-> Num(0)], [limit |-> Num(1)],
     [repository |-> "o/r"], [status |-> "pending", limit |-> Num(1)],
     [repository |-> "o/s", status |-> "pending", limit |-> Num(2)]}

\* one client call: counted, and the run of the workflow is not involved
Call ==
    /\ pc = "idle"
    /\ calls < MaxCalls
    /\ calls' = calls + 1
    /\ UNCHANGED runVars

\* the wall clock is set: it is not monotonic
ClockSet ==
    /\ pc = "idle"
    /\ calls < MaxCalls
    /\ \E t \in 1..MaxTime : t # now /\ now' = t
    /\ UNCHANGED <<redisHash, redisList, redisZset, runVars, clientVars>>

RedisCreateJob ==
    \E id \in generateJobId, params \in JobParams, d \in StoreOutcomes :
        /\ Call
        /\ createJob(id, params, d)
        /\ created' = created \cup {id}
        /\ ret' = [op |-> "createJob", id |-> id,
                   value |-> IF d = "ok" THEN NewJob(id, params) ELSE RedisError]
        /\ UNCHANGED jobs

\* what updateJob(id, updates) resolves to
UpdateJobValue(id, updates) ==
    LET existing == redisHash[HashKey(id)]
    IN  IF IsEmptyHash(existing) THEN [absent |-> TRUE]
        ELSE jobFromRedis(UpdatedData(existing, updates), redisList[LogsKey(id)])

RedisUpdateJob ==
    \E id \in JobIds, updates \in TypedUpdates :
        /\ Call
        /\ updateJob(id, updates, "ok")
        /\ ret' = [op |-> "updateJob", id |-> id,
                   value |-> UpdateJobValue(id, updates)]
        /\ UNCHANGED <<jobs, created>>

RedisUpdateJobUntyped ==
    \E id \in JobIds, updates \in UntypedUpdates :
        /\ Call
        /\ updateJob(id, updates, "ok")
        /\ ret' = [op |-> "updateJob", id |-> id,
                   value |-> UpdateJobValue(id, updates)]
        /\ UNCHANGED <<jobs, created>>

RedisAddJobLog ==
    \E id \in JobIds, message \in Messages, d \in {"ok", "failAfter"} :
        /\ Call
        /\ addJobLog(id, message, d)
        /\ ret' = [op |-> "addJobLog", id |-> id,
                   value |-> IF d = "ok" THEN NoFields ELSE RedisError]
        /\ UNCHANGED <<jobs, created>>

RedisGetJob ==
    \E id \in JobIds :
        /\ Call
        /\ ret' = [op |-> "getJob", id |-> id, value |-> getJob(id)]
        /\ UNCHANGED <<storeVars, jobs, created>>

RedisListJobs ==
    \E options \in ListOptions :
        /\ Call
        /\ ret' = [op |-> "listJobs", options |-> options,
                   value |-> listJobs(options)]
        /\ UNCHANGED <<storeVars, jobs, created>>

RouteGET ==
    \E session \in Sessions, searchParams \in SearchParams :
        /\ Call
        /\ ret' = [op |-> "GET", session |-> session,
                   searchParams |-> searchParams] @@ GET(session, searchParams)
        /\ UNCHANGED <<storeVars, jobs, created>>

RedisNext ==
    \/ ClockSet
    \/ RedisCreateJob
    \/ RedisUpdateJob
    \/ RedisAddJobLog
    \/ RedisGetJob
    \/ RedisListJobs
    \/ RouteGET

\* the Redis store under a client's calls, and the query endpoint
RedisSpec == Init /\ [][RedisNext]_vars

UntypedNext == RedisNext \/ RedisUpdateJobUntyped

\* the same, with callers that hand updateJob fields its type omits
UntypedSpec == Init /\ [][UntypedNext]_vars

InMemoryFrame == UNCHANGED <<redisHash, redisList, redisZset>>

InMemoryCreateJob ==
    \E id \in generateJobId, params \in JobParams, later \in {now, now + 1} :
        /\ Call
        /\ jobs' = SetInMemory(id, createJobInMemory(id, params, later))
        /\ now' = later
        /\ created' = created \cup {id}
        /\ ret' = [op |-> "createJob", id |-> id,
                   value |-> createJobInMemory(id, params, later)]
        /\ InMemoryFrame

\* the updates the in-memory updateJob's parameter type admits: logs too
InMemoryUpdates == TypedUpdates \cup {[logs |-> <<>>]}

InMemoryUpdateJob ==
    \E id \in JobIds, updates \in InMemoryUpdates :
        /\ Call
        /\ IF HasInMemory(id)
           THEN /\ jobs' = SetInMemory(id,
                               updateJobInMemory(getJobInMemory(id), updates))
                /\ ret' = [op |-> "updateJob", id |-> id,
                           value |-> updateJobInMemory(getJobInMemory(id),
                                                       updates)]
           ELSE /\ ret' = [op |-> "updateJob", id |-> id,
                           value |-> [absent |-> TRUE]]
                /\ UNCHANGED jobs
        /\ UNCHANGED <<now, created>>
        /\ InMemoryFrame

InMemoryAddJobLog ==
    \E id \in JobIds, message \in Messages, later \in {now, now + 1} :
        /\ Call
        /\ IF HasInMemory(id)
           THEN /\ jobs' = SetInMemory(id,
                       addJobLogInMemory(getJobInMemory(id), message, later))
                /\ now' = later
           ELSE UNCHANGED <<jobs, now>>
        /\ ret' = [op |-> "addJobLog", id |-> id, value |-> NoFields]
        /\ UNCHANGED created
        /\ InMemoryFrame

InMemoryGetJob ==
    \E id \in JobIds :
        /\ Call
        /\ ret' = [op |-> "getJob", id |-> id, value |-> getJobInMemory(id)]
        /\ UNCHANGED <<now, jobs, created>>
        /\ InMemoryFrame

InMemoryListJobs ==
    \E options \in ListOptions :
        /\ Call
        /\ ret' = [op |-> "listJobs", options |-> options,
                   value |-> listJobsInMemory(options)]
        /\ UNCHANGED <<now, jobs, created>>
        /\ InMemoryFrame

InMemoryNext ==
    \/ ClockSet
    \/ InMemoryCreateJob
    \/ InMemoryUpdateJob
    \/ InMemoryAddJobLog
    \/ InMemoryGetJob
    \/ InMemoryListJobs

\* the in-memory store under a client's calls
InMemorySpec == Init /\ [][InMemoryNext]_vars

(* ------------------- the two stores under the same calls --------------- *)

\* createJob(params) on both stores, at one reading of the clock
LockstepCreateJob ==
    \E id \in generateJobId, params \in JobParams :
        /\ Call
        /\ createJob(id, params, "ok")
        /\ jobs' = SetInMemory(id, createJobInMemory(id, params, now))
        /\ created' = created \cup {id}
        /\ ret' = [op |-> "createJob", id |-> id,
                   redis |-> NewJob(id, params),
                   memory |-> createJobInMemory(id, params, now)]

\* what the in-memory updateJob(id, updates) resolves to
UpdateJobValueInMemory(id, updates) ==
    IF HasInMemory(id)
    THEN updateJobInMemory(getJobInMemory(id), updates)
    ELSE [absent |-> TRUE]

LockstepUpdateJob ==
    \E id \in JobIds, updates \in TypedUpdates :
        /\ Call
        /\ updateJob(id, updates, "ok")
        /\ jobs' = IF HasInMemory(id)
                   THEN SetInMemory(id, UpdateJobValueInMemory(id, updates))
                   ELSE jobs
        /\ ret' = [op |-> "updateJob", id |-> id,
                   redis |-> UpdateJobValue(id, updates),
                   memory |-> UpdateJobValueInMemory(id, updates)]
        /\ UNCHANGED created

LockstepAddJobLog ==
    \E id \in JobIds, message \in Messages :
        /\ Call
        /\ addJobLog(id, message, "ok")
        /\ jobs' = IF HasInMemory(id)
                   THEN SetInMemory(id,
                            addJobLogInMemory(getJobInMemory(id), message, now))
                   ELSE jobs
        /\ ret' = [op |-> "addJobLog", id |-> id,
                   redis |-> NoFields, memory |-> NoFields]
        /\ UNCHANGED created

LockstepGetJob ==
    \E id \in JobIds :
        /\ Call
        /\ ret' = [op |-> "getJob", id |-> id,
                   redis |-> getJob(id), memory |-> getJobInMemory(id)]
        /\ UNCHANGED <<storeVars, jobs, created>>

LockstepListJobs ==
    \E options \in ListOptions :
        /\ Call
        /\ ret' = [op |-> "listJobs", options |-> options,
                   redis |-> listJobs(options),
                   memory |-> listJobsInMemory(options)]
        /\ UNCHANGED <<storeVars, jobs, created>>

LockstepNext ==
    \/ ClockSet
    \/ LockstepCreateJob
    \/ LockstepUpdateJob
    \/ LockstepAddJobLog
    \/ LockstepGetJob
    \/ LockstepListJobs

\* one client making every call on both stores, with one clock
LockstepSpec == Init /\ [][LockstepNext]_vars

(* ------------------ a run and the calls of other processes ------------- *)

\* a call of another process: counted, and the run is where it was
ConcurrentCall ==
    /\ calls < MaxConcurrent
    /\ calls' = calls + 1
    /\ UNCHANGED <<runVars, jobs>>

\* another trigger creates its job; the id of the run's job is not generated
\* a second time
ConcurrentCreateJob ==
    \E id \in generateJobId \ {BackportParams.jobId},
       params \in {p \in JobParams : p.repository # BackportParams.repository} :
        /\ ConcurrentCall
        /\ createJob(id, params, "ok")
        /\ created' = created \cup {id}
        /\ ret' = [op |-> "createJob", id |-> id, value |-> NewJob(id, params)]

ConcurrentUpdateJob ==
    \E id \in JobIds, updates \in {[status |-> "in_progress"]} :
        /\ ConcurrentCall
        /\ updateJob(id, updates, "ok")
        /\ ret' = [op |-> "updateJob", id |-> id,
                   value |-> UpdateJobValue(id, updates)]
        /\ UNCHANGED created

ConcurrentAddJobLog ==
    \E id \in JobIds, message \in {<<"a">>} :
        /\ ConcurrentCall
        /\ addJobLog(id, message, "ok")
        /\ ret' = [op |-> "addJobLog", id |-> id, value |-> NoFields]
        /\ UNCHANGED created

ConcurrentNext ==
    \/ Trigger
    \/ acknowledgeRequest
    \/ bodyAddJobLog
    \/ fetchPRDetails
    \/ validateTargetBranch
    \/ analyzeChanges
    \/ performBackport
    \/ createBackportPR
    \/ reportSuccess
    \/ updateJobCompleted
    \/ reportFailure
    \/ updateJobFailed
    \/ catchAddJobLog
    \/ catchUpdateJob
    \/ ConcurrentCreateJob
    \/ ConcurrentUpdateJob
    \/ ConcurrentAddJobLog

\* one uninterrupted run of backportPullRequest, with calls of other
\* processes on the store between its steps
ConcurrentSpec == Init /\ [][ConcurrentNext]_vars

(* ------------------------------ readers ------------------------------- *)

\* the job as a reader polling the store sees it
Job == getJob(BackportParams.jobId)

Finished == pc \in {"returned", "thrown"}

TypeOK ==
    /\ pc \in {"idle", "returned", "thrown", "L405", "L406", "L379", "L396"}
              \cup LogSites \cup StepSites
    /\ replays \in 0..MaxReplays
    /\ \A s \in StepNames : attempts[s] \in 0..AttemptCeiling

JobExists == ~IsEmptyHash(redisHash[HashKey(BackportParams.jobId)])

TerminalStatuses == {"completed", "failed"}

StatusRank(status) ==
    CASE status = "pending" -> 0
      [] status = "in_progress" -> 1
      [] status \in TerminalStatuses -> 2

\* the status, resultPR and error of the stored job
Outcome == [f \in DOMAIN Job \cap {"status", "resultPR", "error"} |-> Job[f]]

IsSuccessComment(body) == body[1] = "Successfully backported to "

IsFailureComment(body) == body[1] = "Failed to backport to "

SuccessComments ==
    {i \in DOMAIN github.comments : IsSuccessComment(github.comments[i])}

FailureComments ==
    {i \in DOMAIN github.comments : IsFailureComment(github.comments[i])}

\* the side-effect counter of a step
Effects(s) ==
    CASE s = "acknowledgeRequest" -> github.reactions
      [] s = "createBackportPR" -> Len(github.pulls)
      [] s = "reportSuccess" -> Cardinality(SuccessComments)
      [] s = "reportFailure" -> Cardinality(FailureComments)
      [] OTHER -> 0

(* --------------------- C1: status moves forward ----------------------- *)

C4_TerminalStatusWrittenOnce ==
    Cardinality({i \in DOMAIN terminalWrites :
                    terminalWrites[i] \in TerminalStatuses}) <= 1

(* ------------- C5: every abort reaches a terminal update -------------- *)

\* C5: when backportPullRequest has returned or thrown, the job is in
\* status completed or failed, never pending or in_progress.
C5_AbortReachesTerminalUpdate ==
    Finished => Job.status \in TerminalStatuses

(* ------------- C6: in_progress before the first step ------------------ *)

\* C6: whenever the first step, acknowledgeRequest, is invoked, the job's
\* status is in_progress.
C6_InProgressBeforeFirstStep ==
    [][attempts'["acknowledgeRequest"] # attempts["acknowledgeRequest"] =>
         Job.status = "in_progress"]_vars

(* ------------------- C7: missing target branch ------------------------ *)

\* the steps that follow validateTargetBranch on the success path
StepsAfterValidation ==
    {"analyzeChanges", "performBackport", "createBackportPR", "reportSuccess"}

\* C7: in a finished run in which get-branch reported the target branch
\* missing, validateTargetBranch was invoked once, no later step ran, and
\* the job is failed with an error that contains the branch name.
C7_MissingBranchFailsJob ==
    (Finished /\ answers["validateTargetBranch"] = "permanent") =>
        /\ attempts["validateTargetBranch"] = 1
        /\ \A s \in StepsAfterValidation : attempts[s] = 0
        /\ Job.status = "failed"
        /\ "error" \in DOMAIN Job
        /\ Contains(Job.error, <<BackportParams.targetBranch>>)

(* ------------------ C8: transient get-branch error -------------------- *)

\* C8: a transient failure of get-branch below the attempt ceiling leaves
\* validateTargetBranch to be retried; it does not abort the run.
C8_TransientBranchErrorRetried ==
    [][(/\ attempts'["validateTargetBranch"] # attempts["validateTargetBranch"]
        /\ answers'["validateTargetBranch"] = "transient"
        /\ attempts'["validateTargetBranch"] < AttemptCeiling) =>
           pc' = "L342"]_vars

(* ------------------- C9: backport failure as a value ------------------- *)

\* C9: in a finished run in which performBackport returned a failure with
\* error m, createBackportPR was never invoked, a failure comment that
\* contains m was posted, the job is failed with error m, and the function
\* returned through the failure branch instead of the catch handler.
C9_FailureValueReported ==
    (/\ Finished
     /\ recorded["performBackport"].kind = "value"
     /\ ~recorded["performBackport"].value.success) =>
        LET m == recorded["performBackport"].value.error
        IN  /\ attempts["createBackportPR"] = 0
            /\ \E i \in FailureComments : Contains(github.comments[i], m)
            /\ Job.status = "failed"
            /\ "error" \in DOMAIN Job
            /\ Job.error = m
            /\ pc = "returned"

(* --------------------- C3: replay of a run ---------------------------- *)

\* the step whose error aborts an uninterrupted run that gets the
\* collaborator answers of this run: the answer is an error and the step
\* is not retried any more
Aborting(s) ==
    /\ answers[s] \in {"transient", "permanent"}
    /\ s = "validateTargetBranch" \/ attempts[s] >= AttemptCeiling

\* the status, resultPR and error an uninterrupted run ends with, given
\* the collaborator answers and the step results of this run
UninterruptedOutcome ==
    IF \E s \in StepNames : Aborting(s)
    THEN LET s == CHOOSE t \in StepNames : Aborting(t)
         IN  [status |-> "failed",
              error |-> IF s = "validateTargetBranch"
                        THEN BranchMissingMessage(BackportParams.targetBranch)
                        ELSE HttpErrorMessage(answers[s])]
    ELSE IF recorded["performBackport"].value.success
    THEN [status |-> "completed",
          resultPR |-> recorded["createBackportPR"].value]
    ELSE [status |-> "failed",
          error |-> recorded["performBackport"].value.error]

\* C3: once a step has completed, neither its function nor its side effect
\* is invoked again, however often the run is interrupted and re-driven;
\* and a run whose store calls all returned ends with the status, resultPR
\* and error of the uninterrupted run with the same collaborator answers.
C3_ReplayRunsNoStepTwice ==
    [][/\ \A s \in StepNames :
            recorded[s].kind = "value" =>
                /\ attempts'[s] = attempts[s]
                /\ Effects(s)' = Effects(s)
       /\ (Finished' /\ storeFaults' = 0) =>
              Outcome' = UninterruptedOutcome']_vars

\* a run that was interrupted after a completed step, re-driven past the
\* recorded steps, and finished as completed with its one PR
C3_Witness ==
    /\ Finished
    /\ replays > 0
    /\ storeFaults = 0
    /\ Effects("createBackportPR") = 1
    /\ Job.status = "completed"

(* ------------------- C10: order of the success path ------------------- *)

\* C10: the PR is created at most once, the success comment is posted at
\* most once, after the PR and naming its number, and status completed is
\* written at most once, after both, with resultPR the number of that PR.
C10_SuccessPathInOrder ==
    /\ Len(github.pulls) <= 1
    /\ Cardinality(SuccessComments) <= 1
    /\ Cardinality({i \in DOMAIN terminalWrites :
                       terminalWrites[i] = "completed"}) <= 1
    /\ \A i \in SuccessComments :
          /\ Len(github.pulls) = 1
          /\ Contains(github.comments[i],
                      <<ToString(github.pulls[1].number)>>)
    /\ (JobExists /\ Job.status = "completed") =>
          /\ Len(github.pulls) = 1
          /\ SuccessComments # {}
          /\ "resultPR" \in DOMAIN Job
          /\ Job.resultPR = github.pulls[1].number
    /\ (\E i \in DOMAIN terminalWrites : terminalWrites[i] = "completed") =>
          SuccessComments # {}

\* a run that created the PR, posted the comment and completed the job
C10_Witness ==
    /\ pc = "returned"
    /\ JobExists
    /\ Job.status = "completed"
    /\ Job.resultPR = 8
    /\ SuccessComments # {}

(* ------------- C11: a failed run notifies the requester --------------- *)

\* C11: every finished run whose job is failed has posted a failure
\* comment on the source PR (stated for the runs whose store calls all
\* returned).
C11_FailedRunPostsComment ==
    (Finished /\ storeFaults = 0 /\ JobExists /\ Job.status = "failed") =>
        FailureComments # {}

(* ---------------- C12: Acknowledge is best-effort --------------------- *)

\* C12: a run whose acknowledgeRequest step failed for good still goes on
\* to fetchPRDetails and is not marked failed for it.
C12_AcknowledgeFailureDoesNotAbort ==
    (Finished /\ Aborting("acknowledgeRequest")) =>
        /\ attempts["fetchPRDetails"] > 0
        /\ Job.status # "failed"

(* ------------ C13: an exception of steps 1-5 short-circuits ----------- *)

\* the position of a step in the orchestrator's sequence
StepIndex(s) ==
    CASE s = "acknowledgeRequest" -> 1
      [] s = "fetchPRDetails" -> 2
      [] s = "validateTargetBranch" -> 3
      [] s = "analyzeChanges" -> 4
      [] s = "performBackport" -> 5
      [] OTHER -> 6

\* C13: in a finished run in which one of steps 1-5 raised into the
\* workflow, no later step was invoked and the job is failed with the
\* message of that exception as its error.
C13_StepExceptionShortCircuits ==
    \A s \in StepNames :
        (Finished /\ StepIndex(s) <= 5 /\ Aborting(s)) =>
            /\ \A t \in StepNames : StepIndex(t) > StepIndex(s) =>
                                       attempts[t] = 0
            /\ Job.status = "failed"
            /\ "error" \in DOMAIN Job
            /\ Job.error = IF s = "validateTargetBranch"
                           THEN BranchMissingMessage(
                                    BackportParams.targetBranch)
                           ELSE HttpErrorMessage(answers[s])

(* ---------------- C14: listing order and the limit -------------------- *)

IsNewestFirst(s) ==
    \A i, j \in 1..Len(s) : i < j => s[i].createdAt >= s[j].createdAt

\* the options without their limit
Unlimited(options) == [f \in DOMAIN options \ {"limit"} |-> options[f]]

\* C14: whatever the order of creation, listJobs returns the jobs newest
\* createdAt first, and with a limit n it returns exactly the first n entries
\* of that listing (all of them when there are fewer than n).
C14_ListNewestFirstAndLimited ==
    (ret.op = "listJobs" /\ "limit" \in DOMAIN ret.options) =>
        LET all == listJobs(Unlimited(ret.options))
            n == ret.options.limit.value
        IN  /\ IsNewestFirst(ret.value)
            /\ ret.value = SubSeq(all, 1, IF n < Len(all) THEN n ELSE Len(all))

(* --------------------- C15: the log is append-only --------------------- *)

LogsInMemory(id) ==
    IF HasInMemory(id) THEN getJobInMemory(id).logs ELSE <<>>

IsPrefix(s, t) == Len(s) <= Len(t) /\ SubSeq(t, 1, Len(s)) = s

\* C15: no call of the store shortens or rewrites the log of a job: the log
\* before a call is a prefix of the log after it.
C15_LogAppendOnly ==
    [][\A id \in JobIds : IsPrefix(LogsInMemory(id), LogsInMemory(id)')]_vars

(* ---------------- C16: updateJob keeps id and createdAt ---------------- *)

\* C16: updateJob leaves the id and the createdAt of an existing job as they
\* were, in the stored record and in the returned one, also when the updates
\* supply an id or a createdAt.
C16_UpdateKeepsIdAndCreatedAt ==
    [][\A id \in JobIds :
          LET before == redisHash[HashKey(id)]
              after == redisHash'[HashKey(id)]
          IN  (ret'.op = "updateJob" /\ ret'.id = id
                  /\ "createdAt" \in DOMAIN before) =>
                  /\ after.id = before.id
                  /\ after.createdAt = before.createdAt
                  /\ ret'.value.id = before.id
                  /\ ret'.value.createdAt = DateFromISO(before.createdAt)]_vars

(* ------------------ C17: an id that was never created ------------------ *)

\* the ids an unfiltered listJobs returns
ListedIds == {listJobs(NoFields)[i].id : i \in 1..Len(listJobs(NoFields))}

\* C17: for an id createJob was never called for, getJob and updateJob return
\* absent and neither getJob nor listJobs shows a record, whatever calls were
\* made on that id.
C17_UnknownIdStaysAbsent ==
    \A id \in JobIds \ created :
        /\ "absent" \in DOMAIN getJob(id)
        /\ (ret.op \in {"getJob", "updateJob"} /\ ret.id = id) =>
               "absent" \in DOMAIN ret.value
        /\ id \notin ListedIds

(* --------------- C18: createJob and the index entry -------------------- *)

\* C18: the job createJob returns is pending, has no logs and one time for
\* createdAt and updatedAt; and in every state a job that getJob returns is
\* also in the unfiltered listing.
C18_CreateJobAtomicWithIndex ==
    /\ (ret.op = "createJob" /\ "isError" \notin DOMAIN ret.value) =>
           /\ ret.value.status = "pending"
           /\ ret.value.logs = <<>>
           /\ ret.value.createdAt = ret.value.updatedAt
    /\ \A id \in created :
           "absent" \notin DOMAIN getJob(id) => id \in ListedIds

(* ------------------- C19: no partially written record ------------------ *)

RecordFields ==
    {"id", "repository", "installationId", "sourcePR", "targetBranch",
     "status", "createdAt", "updatedAt", "requestedBy", "commentId"}

\* C19: every record getJob or listJobs returns has all of id, repository,
\* installationId, sourcePR, targetBranch, status, createdAt, updatedAt,
\* requestedBy and commentId.
C19_NoPartialRecord ==
    /\ \A id \in JobIds :
           "absent" \notin DOMAIN getJob(id) =>
               RecordFields \subseteq DOMAIN getJob(id)
    /\ \A i \in 1..Len(listJobs(NoFields)) :
           RecordFields \subseteq DOMAIN listJobs(NoFields)[i]

(* --------------------- C20: the query endpoint ------------------------- *)

TokenPresent(session) ==
    "accessToken" \in DOMAIN session /\ session.accessToken # ""

Stored(id) == id \in JobIds /\ ~IsEmptyHash(redisHash[HashKey(id)])

\* the limit a query string asks for, 50 when it names none
RequestedLimit(searchParams) ==
    IF "limit" \in DOMAIN searchParams /\ searchParams.limit # ""
    THEN parseInt(searchParams.limit) ELSE Num(50)

\* what GET answers a request without a token, and a request for the list
AnswersTokenAndList(with_id) ==
    /\ ~TokenPresent(ret.session) =>
           ret.status = 401 /\ ret.called = {}
    /\ (TokenPresent(ret.session) /\ ~with_id) =>
           /\ ret.status = 200
           /\ ret.called = {"listJobsForUser"}
           /\ ret.body = [jobs |-> listJobsForUser(ret.session.accessToken,
                                       RequestedLimit(ret.searchParams))]

\* what GET answers a request for the job id
AnswersJob(with_id) ==
    (TokenPresent(ret.session) /\ with_id) =>
        IF Stored(ret.searchParams.id)
        THEN ret.status = 200 /\ ret.body = getJob(ret.searchParams.id)
        ELSE ret.status = 404

\* C20 as stated: without an access token GET answers 401 and calls no store
\* function; with a token, a request with id answers that job, or 404 when
\* there is none; a request without id answers {jobs} from listJobsForUser
\* with the requested limit, 50 by default.
C20_QueryEndpoint ==
    ret.op = "GET" =>
        /\ AnswersTokenAndList("id" \in DOMAIN ret.searchParams)
        /\ AnswersJob("id" \in DOMAIN ret.searchParams)

\* C20, amended: the same, where a request with an empty id counts as a
\* request without id and is answered with {jobs}.
C20_QueryEndpointNonEmptyId ==
    ret.op = "GET" =>
        /\ AnswersTokenAndList(HasText(ret.searchParams, "id"))
        /\ AnswersJob(HasText(ret.searchParams, "id"))

\* a request with a token and an empty id was answered with a stored job in
\* {jobs}
C20_Witness ==
    /\ ret.op = "GET"
    /\ TokenPresent(ret.session)
    /\ "id" \in DOMAIN ret.searchParams
    /\ ret.searchParams.id = ""
    /\ ret.status = 200
    /\ Len(ret.body.jobs) >= 1

(* ----------------- C22: bounded retry and termination ------------------ *)

\* the engine keeps driving the run: a step that can be taken is taken
FairSpec == Spec /\ WF_vars(Next)

\* C22: no step is invoked more often than the attempt ceiling, and every run
\* eventually ends with the job completed or failed.
C22_RunEndsInTerminalStatus ==
    /\ [](\A s \in StepNames : attempts[s] <= AttemptCeiling)
    /\ <>(Finished /\ Job.status \in TerminalStatuses)

(* ------------------- C25: the log of a replayed run -------------------- *)

\* the messages of the job's log, without their times
LoggedMessages == [i \in 1..Len(Job.logs) |-> Job.logs[i].message]

\* C25: the log of a finished run, interrupted or not, holds each progress
\* entry of the workflow body once (stated for the runs whose store calls all
\* returned).
C25_ReplayLogsEachEntryOnce ==
    (Finished /\ storeFaults = 0) =>
        \A i, j \in 1..Len(LoggedMessages) :
            i # j => LoggedMessages[i] # LoggedMessages[j]

(* --------------------- C23: the filters of listJobs -------------------- *)

\* the stored jobs that pass the repository and the status of the options
Matching(options) ==
    {id \in JobIds :
        /\ Stored(id)
        /\ "repository" \in DOMAIN options =>
               /\ "repository" \in DOMAIN getJob(id)
               /\ getJob(id).repository = options.repository
        /\ "status" \in DOMAIN options =>
               /\ "status" \in DOMAIN getJob(id)
               /\ getJob(id).status = options.status}

\* C23: listJobs returns the first `limit` jobs, newest first, among the
\* stored jobs that pass both filters, and no other job.
C23_FiltersConjunctiveBeforeLimit ==
    ret.op = "listJobs" =>
        LET match == Matching(ret.options)
            returned == {ret.value[i].id : i \in 1..Len(ret.value)}
            wanted == IF "limit" \in DOMAIN ret.options
                         /\ ret.options.limit.value < Cardinality(match)
                      THEN ret.options.limit.value ELSE Cardinality(match)
        IN  /\ returned \subseteq match
            /\ Len(ret.value) = wanted
            /\ Cardinality(returned) = wanted
            /\ IsNewestFirst(ret.value)
            /\ \A id \in match \ returned : \A i \in 1..Len(ret.value) :
                   "createdAt" \in DOMAIN getJob(id)
                       /\ getJob(id).createdAt <= ret.value[i].createdAt

(* ------------------ C24: the two stores agree -------------------------- *)

\* C24: under the same calls with the same arguments and clock, the in-memory
\* store and the Redis store return the same results.
C24_StoresReturnTheSame ==
    ret.op \in {"createJob", "getJob", "updateJob", "addJobLog", "listJobs"} =>
        ret.redis = ret.memory

(* --------------- C21: distinct job ids do not interfere ---------------- *)

\* the job of another trigger
OtherJobId == CHOOSE id \in JobIds : id # BackportParams.jobId

\* C21: a step of the run on its job, and a createJob, updateJob or addJobLog
\* call on a job id, leave the record and the log of every other job id as
\* they were.
C21_DistinctJobsDoNotInterfere ==
    [][LET target == IF calls' = calls THEN {BackportParams.jobId}
                     ELSE IF "id" \in DOMAIN ret' THEN {ret'.id} ELSE {}
       IN  \A b \in JobIds \ target :
               /\ redisHash'[HashKey(b)] = redisHash[HashKey(b)]
               /\ redisList'[LogsKey(b)] = redisList[LogsKey(b)]]_vars

\* the other job was created while the run was under way, the run finished
\* with its job completed and its log written, and the other job is as its
\* createJob left it
C21_Witness ==
    /\ Finished
    /\ Job.status = "completed"
    /\ Len(Job.logs) > 0
    /\ Stored(OtherJobId)
    /\ getJob(OtherJobId).createdAt > Job.createdAt
    /\ getJob(OtherJobId).updatedAt = getJob(OtherJobId).createdAt
    /\ getJob(OtherJobId).status = "pending"
    /\ getJob(OtherJobId).logs = <<>>

====
